---------------------------- MODULE Spec2Model ----------------------------
(***************************************************************************)
(* dict-match: first-match lookup of an input bag against an ordered rule  *)
(* list.  The module models LinearScan (the reference scan) and            *)
(* LowCardinalityTree (construction, statement by statement, and find) of  *)
(* src/src/lib.rs.                                                         *)
(*                                                                         *)
(* Encodings.  Option<T> is a sequence: <<>> is None and <<x>> is Some(x). *)
(* A BTreeMap<String, String> (a Rule, an input bag) is a function from a  *)
(* finite set of key strings to value strings.  A Node is a record with a  *)
(* field kind; Parent carries wildcard (an Option of a Node) and explicit  *)
(* (a function from value strings to Nodes).  A `&mut Node` into the tree  *)
(* is the path of edges leading to it from the root.                       *)
(***************************************************************************)
EXTENDS Integers, Sequences, FiniteSets, TLC

\* Longest rule list considered.
MaxRules == 3

\* All attribute names, in the order String's Ord (the BTreeSet) gives them.
KeyOrder == <<"a", "b", "c">>

\* Attribute names rules may constrain, and the values they may require.
RuleKeys == {"a", "b"}
RuleValues == {"1", "2"}

\* Attribute names an input bag may carry, and the values it may give them.
InputKeys == {"a", "b", "c"}
InputValues(k) == IF k = "c" THEN {"3"} ELSE RuleValues \cup {"garbage"}

\* The BTreeMap<String, String> values a Rule may hold.
Rules == UNION {[D -> RuleValues] : D \in SUBSET RuleKeys}

\* The BTreeMap<String, String> values an input bag may hold.
Inputs ==
  UNION { {f \in [D -> UNION {InputValues(k) : k \in D}] :
             \A k \in D : f[k] \in InputValues(k)}
          : D \in SUBSET InputKeys }

\* The Vec<Rule> values handed to Matcher::new.
RuleLists == UNION {[1..n -> Rules] : n \in 0..MaxRules}

----------------------------------------------------------------------------
\* Option<T>
None == <<>>
Some(x) == <<x>>

\* BTreeMap::get
get(map, k) == IF k \in DOMAIN map THEN Some(map[k]) ELSE None

\* Node::Leaf(idx)
Leaf(idx) == [kind |-> "Leaf", idx |-> idx]

\* Node::Parent { wildcard, explicit }
Parent(wildcard, explicit) ==
  [kind |-> "Parent", wildcard |-> wildcard, explicit |-> explicit]

\* Node::empty()
empty == Parent(None, <<>>)

\* The two kinds of edge out of a Parent.
WildcardEdge == <<"wildcard">>
ExplicitEdge(value) == <<"explicit", value>>

VARIABLES
  rules,     \* the Vec<Rule> given to Matcher::new
  pc,        \* position: "new", "loop", "walk", "built", "returned", "panic"
  keys,      \* new's local `keys`
  root,      \* new's local `root`, an Option of a Node (None before line 106)
  rule_idx,  \* new's enumerate() counter
  cur,       \* new's `cur`, as the path from root
  key_i,     \* number of keys the inner loop has consumed
  self,      \* the constructed LowCardinalityTree: [keys, root]
  input,     \* the bag of the last find call
  result     \* what the last find call returned

vars == <<rules, pc, keys, root, rule_idx, cur, key_i, self, input, result>>

----------------------------------------------------------------------------
\* Rank of a key in String order.
Rank(k) == CHOOSE i \in 1..Len(KeyOrder) : KeyOrder[i] = k

\* BTreeSet<String>::into_iter().collect(): the set's elements, ascending.
RECURSIVE SortedKeys(_)
SortedKeys(S) ==
  IF S = {} THEN <<>>
  ELSE LET m == CHOOSE k \in S : \A o \in S : Rank(k) <= Rank(o)
       IN <<m>> \o SortedKeys(S \ {m})

\* rules.iter().flat_map(|r| r.0.keys().cloned()).collect::<BTreeSet<_>>()
DedupedKeys(rs) == UNION {DOMAIN rs[i] : i \in 1..Len(rs)}

\* rule.0.iter().all(|(k, v)| input.get(k) == Some(v))
RuleMatches(rule, in) == \A k \in DOMAIN rule : get(in, k) = Some(rule[k])

\* LinearScan::find, from the i-th rule (0-based) on.
RECURSIVE LinearScan_find_from(_, _, _)
LinearScan_find_from(rs, i, in) ==
  IF i >= Len(rs) THEN None
  ELSE IF RuleMatches(rs[i + 1], in) THEN Some(i)
  ELSE LinearScan_find_from(rs, i + 1, in)

LinearScan_find(rs, in) == LinearScan_find_from(rs, 0, in)

\* min_some keeping its second argument whenever it is Some.
min_some_last(a, b) == IF b # None THEN Some(b[1]) ELSE a

\* min_some
min_some(a, b) ==
  CASE a = None /\ b = None -> None
    [] a = None /\ b # None -> Some(b[1])
    [] a # None /\ b = None -> Some(a[1])
    [] OTHER -> Some(IF a[1] <= b[1] THEN a[1] ELSE b[1])

\* The child of a Parent along an edge, as an Option.
Child(node, edge) ==
  IF edge = WildcardEdge THEN node.wildcard ELSE get(node.explicit, edge[2])

\* A Parent with the child along an edge replaced.
WithChild(node, edge, child) ==
  IF edge = WildcardEdge
  THEN Parent(Some(child), node.explicit)
  ELSE Parent(node.wildcard,
              [v \in DOMAIN node.explicit \cup {edge[2]} |->
                 IF v = edge[2] THEN child ELSE node.explicit[v]])

\* Dereference of a `&mut Node` reached from node along path.
RECURSIVE NodeAt(_, _)
NodeAt(node, path) ==
  IF path = <<>> THEN node
  ELSE NodeAt(Child(node, Head(path))[1], Tail(path))

\* Assignment through a `&mut Node` reached from node along path.
RECURSIVE StoreAt(_, _, _)
StoreAt(node, path, new) ==
  IF path = <<>> THEN new
  ELSE WithChild(node, Head(path),
                 StoreAt(Child(node, Head(path))[1], Tail(path), new))

\* Node::find_min_leaf panics: keys[0] or keys[1..] on an empty slice.
RECURSIVE find_min_leaf_panics(_, _, _)
find_min_leaf_panics(node, ks, in) ==
  IF node.kind = "Leaf" THEN FALSE
  ELSE IF ks = <<>> THEN TRUE
  ELSE \/ /\ node.wildcard # None
          /\ find_min_leaf_panics(node.wildcard[1], Tail(ks), in)
       \/ LET value == get(in, Head(ks))
          IN /\ value # None
             /\ get(node.explicit, value[1]) # None
             /\ find_min_leaf_panics(node.explicit[value[1]], Tail(ks), in)

\* find_min_leaf searching the wildcard child only when the input gives the
\* key no value.
RECURSIVE find_min_leaf_either(_, _, _)
find_min_leaf_either(node, ks, in) ==
  IF node.kind = "Leaf" THEN Some(node.idx)
  ELSE
    LET value == get(in, Head(ks))
    IN IF value = None
       THEN IF node.wildcard # None
            THEN find_min_leaf_either(node.wildcard[1], Tail(ks), in)
            ELSE None
       ELSE IF get(node.explicit, value[1]) # None
            THEN find_min_leaf_either(node.explicit[value[1]], Tail(ks), in)
            ELSE None

\* Node::find_min_leaf, where it does not panic.
RECURSIVE find_min_leaf(_, _, _)
find_min_leaf(node, ks, in) ==
  IF node.kind = "Leaf" THEN Some(node.idx)
  ELSE
    LET best0 == None
        best1 == IF node.wildcard # None
                 THEN min_some(best0, find_min_leaf(node.wildcard[1], Tail(ks), in))
                 ELSE best0
        value == get(in, Head(ks))
        best2 == IF value # None /\ get(node.explicit, value[1]) # None
                 THEN min_some(best1,
                               find_min_leaf(node.explicit[value[1]], Tail(ks), in))
                 ELSE best1
    IN best2

\* LowCardinalityTree::find panics.
Tree_find_panics(t, in) ==
  t.root # None /\ find_min_leaf_panics(t.root[1], t.keys, in)

\* LowCardinalityTree::find, where it does not panic.
Tree_find(t, in) ==
  IF t.root = None THEN None ELSE find_min_leaf(t.root[1], t.keys, in)

----------------------------------------------------------------------------
Init ==
  /\ rules \in RuleLists
  /\ pc = "new"
  /\ keys = <<>>
  /\ root = None
  /\ rule_idx = 0
  /\ cur = <<>>
  /\ key_i = 0
  /\ self = [keys |-> <<>>, root |-> None]
  /\ input = <<>>
  /\ result = None

\* NewKeys without the early return: the empty-key loop leaves the last
\* rule's index in the root.
NewKeys_last ==
  /\ pc = "new"
  /\ LET ks == SortedKeys(DedupedKeys(rules))
     IN /\ keys' = ks
        /\ IF ks = <<>>
           THEN /\ self' = [keys |-> ks,
                            root |-> IF rules = <<>> THEN None
                                     ELSE Some(Leaf(Len(rules) - 1))]
                /\ pc' = "built"
                /\ root' = root
           ELSE /\ root' = Some(Parent(None, <<>>))
                /\ pc' = "loop"
                /\ self' = self
  /\ UNCHANGED <<rules, rule_idx, cur, key_i, input, result>>

\* LowCardinalityTree::new, lines 88-109: the key universe, the early return
\* when it is empty, and the empty root otherwise.
NewKeys ==
  /\ pc = "new"
  /\ LET ks == SortedKeys(DedupedKeys(rules))
     IN /\ keys' = ks
        /\ IF ks = <<>>
           THEN /\ self' = [keys |-> ks,
                            root |-> IF rules = <<>> THEN None ELSE Some(Leaf(0))]
                /\ pc' = "built"
                /\ root' = root
           ELSE /\ root' = Some(Parent(None, <<>>))
                /\ pc' = "loop"
                /\ self' = self
  /\ UNCHANGED <<rules, rule_idx, cur, key_i, input, result>>

\* Lines 110-111: the outer loop takes the next rule and resets cur.
NextRule ==
  /\ pc = "loop"
  /\ rule_idx < Len(rules)
  /\ cur' = <<>>
  /\ key_i' = 0
  /\ pc' = "walk"
  /\ UNCHANGED <<rules, keys, root, rule_idx, self, input, result>>

\* Descend that stays where it is for a key the rule does not constrain.
Descend_skip ==
  /\ pc = "walk"
  /\ key_i < Len(keys)
  /\ LET node == NodeAt(root[1], cur)
         key == keys[key_i + 1]
         rule == rules[rule_idx + 1]
     IN IF node.kind # "Parent"
        THEN /\ pc' = "panic"
             /\ UNCHANGED <<root, cur, key_i>>
        ELSE IF get(rule, key) = None
        THEN /\ key_i' = key_i + 1
             /\ UNCHANGED <<root, cur, pc>>
        ELSE /\ root' = IF Child(node, ExplicitEdge(rule[key])) = None
                        THEN Some(StoreAt(root[1], cur,
                                          WithChild(node, ExplicitEdge(rule[key]), empty)))
                        ELSE root
             /\ cur' = Append(cur, ExplicitEdge(rule[key]))
             /\ key_i' = key_i + 1
             /\ pc' = pc
  /\ UNCHANGED <<rules, keys, rule_idx, self, input, result>>

\* Lines 112-120: one iteration of the inner loop over keys.
Descend ==
  /\ pc = "walk"
  /\ key_i < Len(keys)
  /\ LET node == NodeAt(root[1], cur)
         key == keys[key_i + 1]
         rule == rules[rule_idx + 1]
         edge == IF get(rule, key) = None
                 THEN WildcardEdge
                 ELSE ExplicitEdge(rule[key])
     IN IF node.kind # "Parent"
        THEN \* unreachable!("no interior leaves")
             /\ pc' = "panic"
             /\ UNCHANGED <<root, cur, key_i>>
        ELSE /\ root' = IF Child(node, edge) = None
                        THEN Some(StoreAt(root[1], cur, WithChild(node, edge, empty)))
                        ELSE root
             /\ cur' = Append(cur, edge)
             /\ key_i' = key_i + 1
             /\ pc' = pc
  /\ UNCHANGED <<rules, keys, rule_idx, self, input, result>>

\* SetLeaf storing a one-based index.
SetLeaf_one_based ==
  /\ pc = "walk"
  /\ key_i = Len(keys)
  /\ root' = Some(StoreAt(root[1], cur, Leaf(rule_idx + 1)))
  /\ rule_idx' = rule_idx + 1
  /\ pc' = "loop"
  /\ UNCHANGED <<rules, keys, cur, key_i, self, input, result>>

\* Line 121: *cur = Node::Leaf(rule_idx), and the outer loop's increment.
SetLeaf ==
  /\ pc = "walk"
  /\ key_i = Len(keys)
  /\ root' = Some(StoreAt(root[1], cur, Leaf(rule_idx)))
  /\ rule_idx' = rule_idx + 1
  /\ pc' = "loop"
  /\ UNCHANGED <<rules, keys, cur, key_i, self, input, result>>

\* Lines 123-126: the loop is exhausted and new returns Self.
Finish ==
  /\ pc = "loop"
  /\ rule_idx = Len(rules)
  /\ self' = [keys |-> keys, root |-> Some(root[1])]
  /\ pc' = "built"
  /\ UNCHANGED <<rules, keys, root, rule_idx, cur, key_i, input, result>>

\* Find that caches a hit by collapsing the tree to the leaf it found.
Find_caching ==
  /\ pc \in {"built", "returned"}
  /\ \E in \in Inputs :
       /\ input' = in
       /\ IF Tree_find_panics(self, in)
          THEN pc' = "panic" /\ result' = result /\ self' = self
          ELSE /\ pc' = "returned"
               /\ result' = Tree_find(self, in)
               /\ self' = IF Tree_find(self, in) = None THEN self
                          ELSE [keys |-> <<>>,
                                root |-> Some(Leaf(Tree_find(self, in)[1]))]
  /\ UNCHANGED <<rules, keys, root, rule_idx, cur, key_i>>

\* LowCardinalityTree::find, lines 129-131, on some input bag.
Find ==
  /\ pc \in {"built", "returned"}
  /\ \E in \in Inputs :
       /\ input' = in
       /\ IF Tree_find_panics(self, in)
          THEN pc' = "panic" /\ result' = result
          ELSE pc' = "returned" /\ result' = Tree_find(self, in)
  /\ UNCHANGED <<rules, keys, root, rule_idx, cur, key_i, self>>

Next == NewKeys \/ NextRule \/ Descend \/ SetLeaf \/ Finish \/ Find

Spec == Init /\ [][Next]_vars

----------------------------------------------------------------------------
\* Positions after construction, and after a find call.
Built == pc \in {"built", "returned"}
Returned == pc = "returned"

\* Indices (0-based) of the rules the input satisfies.
Satisfied(rs, in) == {i \in 0..(Len(rs) - 1) : RuleMatches(rs[i + 1], in)}

\* The root-to-leaf path a rule projects to under a key order.
Projection(rule, ks) ==
  [i \in 1..Len(ks) |->
     IF ks[i] \in DOMAIN rule THEN ExplicitEdge(rule[ks[i]]) ELSE WildcardEdge]

\* No two rules of the list hold the same constraint set.
PairwiseDistinct(rs) ==
  \A i, j \in 1..Len(rs) : i # j => rs[i] # rs[j]

\* Every rule of the list has an empty constraint set.
AllUnconstrained(rs) == \A i \in 1..Len(rs) : DOMAIN rs[i] = {}

\* Every Leaf under node (itself at depth d) sits at depth k, every node above
\* depth k is a Parent, and no node lies below depth k.
RECURSIVE DepthOK(_, _, _)
DepthOK(node, d, k) ==
  IF node.kind = "Leaf" THEN d = k
  ELSE /\ d <= k
       /\ node.wildcard # None => DepthOK(node.wildcard[1], d + 1, k)
       /\ \A v \in DOMAIN node.explicit : DepthOK(node.explicit[v], d + 1, k)

\* As DepthOK, and every node at depth k is a Leaf.
RECURSIVE LeavesAtK(_, _, _)
LeavesAtK(node, d, k) ==
  IF node.kind = "Leaf" THEN d = k
  ELSE /\ d < k
       /\ node.wildcard # None => LeavesAtK(node.wildcard[1], d + 1, k)
       /\ \A v \in DOMAIN node.explicit : LeavesAtK(node.explicit[v], d + 1, k)

\* C1: for every rule list and input, the tree's find returns what the linear
\* scan's find returns.
C1_EquivalenceWithOracle ==
  Returned => result = LinearScan_find(rules, input)

\* C2: if find returns Some(i), rule i is satisfied by the input and no rule
\* j < i is.
C2_LowestIndexWins ==
  (Returned /\ result # None) =>
     /\ result[1] \in Satisfied(rules, input)
     /\ \A j \in 0..(result[1] - 1) : j \notin Satisfied(rules, input)

\* C3: find returns None exactly when no rule is satisfied by the input.
C3_NoMatchCorrectness ==
  Returned => (result = None <=> Satisfied(rules, input) = {})

\* C3 witness: find returned None on an input that lacks a key which some
\* rules constrain and others do not.
C3_Witness ==
  /\ Returned
  /\ result = None
  /\ Len(rules) >= 2
  /\ "a" \notin DOMAIN input
  /\ \E i \in 1..Len(rules) : "a" \in DOMAIN rules[i]
  /\ \E i \in 1..Len(rules) : "a" \notin DOMAIN rules[i]

\* C4: with K > 0, once rules 0..rule_idx-1 are inserted, the leaf on each
\* rule's path holds the lowest index among the rules with that constraint
\* set.
C4_CollisionKeepsLowest ==
  (pc \in {"loop", "built", "returned"} /\ keys # <<>>) =>
     LET tree == IF pc = "loop" THEN root[1] ELSE self.root[1]
     IN \A j \in 0..(rule_idx - 1) :
          NodeAt(tree, Projection(rules[j + 1], keys)) =
            Leaf(CHOOSE i \in 0..j :
                   /\ rules[i + 1] = rules[j + 1]
                   /\ \A h \in 0..(i - 1) : rules[h + 1] # rules[j + 1])

\* C5: if rule u has an empty constraint set and the input satisfies no rule
\* before u, find returns Some(u).
C5_UnconstrainedRule ==
  Returned =>
     \A u \in 0..(Len(rules) - 1) :
        (/\ DOMAIN rules[u + 1] = {}
         /\ \A j \in 0..(u - 1) : j \notin Satisfied(rules, input))
        => result = Some(u)

C7_EmptyKeyCollapse ==
  /\ (Built /\ rules # <<>> /\ AllUnconstrained(rules)) =>
        /\ self = [keys |-> <<>>, root |-> Some(Leaf(0))]
        /\ Returned => result = Some(0)
  /\ (Built /\ rules = <<>>) =>
        /\ self = [keys |-> <<>>, root |-> None]
        /\ Returned => result = None

\* C7 witness: find returned on a list of several unconstrained rules.
C7_Witness ==
  /\ Returned
  /\ Len(rules) >= 2
  /\ AllUnconstrained(rules)
  /\ input # <<>>

\* C8: with K > 0, during construction every Leaf sits at depth K and every
\* node above depth K is a Parent; between rules and after construction every
\* node at depth K is a Leaf; neither new nor find panics.
C8_DepthInvariant ==
  /\ pc # "panic"
  /\ pc = "walk" => DepthOK(root[1], 0, Len(keys))
  /\ pc = "loop" => LeavesAtK(root[1], 0, Len(keys))
  /\ (Built /\ self.keys # <<>>) =>
        /\ LeavesAtK(self.root[1], 0, Len(self.keys))
        /\ \A in \in Inputs : ~Tree_find_panics(self, in)

\* C8 witness: the inner loop has ended on an existing Leaf, a later rule
\* colliding with an inserted path.
C8_Witness ==
  /\ pc = "walk"
  /\ key_i = Len(keys)
  /\ Len(keys) = 2
  /\ NodeAt(root[1], cur).kind = "Leaf"

\* C9: for a rule list with pairwise distinct constraint sets, find returns
\* what the linear scan returns.
C9_DistinctRulesEquivalence ==
  (Returned /\ PairwiseDistinct(rules)) =>
     result = LinearScan_find(rules, input)

\* C9 witness: on distinct rules, find returned an index that is neither the
\* first nor the only satisfied one.
C9_Witness ==
  /\ Returned
  /\ PairwiseDistinct(rules)
  /\ result = Some(1)
  /\ Cardinality(Satisfied(rules, input)) >= 2

\* C10: an index find returns is below len(R) and is of a rule the input
\* satisfies.
C10_Soundness ==
  (Returned /\ result # None) =>
     /\ result[1] >= 0
     /\ result[1] < Len(rules)
     /\ RuleMatches(rules[result[1] + 1], input)

\* C10 witness: find returned the index of a later duplicate of a constrained
\* rule.
C10_Witness ==
  /\ Returned
  /\ result # None
  /\ result[1] >= 1
  /\ DOMAIN rules[result[1] + 1] # {}
  /\ \E j \in 0..(result[1] - 1) : rules[j + 1] = rules[result[1] + 1]

=============================================================================
